---------------------------- MODULE Spec2Model ----------------------------
(***************************************************************************)
(* flot-rs (src/src/lib.rs): a fluent builder of Flot chart pages.         *)
(*                                                                         *)
(* A Page owns an arena of Plots, a Plot owns an arena of Series and a     *)
(* JSON option tree.  Page.plot and Plot.lines/points/bars hand out        *)
(* handles into the arenas; Axis and Markings are sub-builders that borrow *)
(* a Plot and write into its option tree; Page.render drains the arena     *)
(* and writes the HTML document.                                           *)
(*                                                                         *)
(* JSON values (json::JsonValue) are tagged records [t, v]; an object is   *)
(* the sequence of its <<key, value>> members in insertion order, an array *)
(* the sequence of its elements.  Text the code builds (placeholder names, *)
(* variable names, the series list, serialized JSON) is kept as text.      *)
(***************************************************************************)
EXTENDS Integers, Sequences, FiniteSets, TLC

VARIABLES
    title,            \* Page.title
    bounds,           \* Page.bounds, <<width, height>>
    count,            \* Page.count
    plots,            \* Page.plots: the arena, in allocation order
    renders,          \* number of Page.render calls so far (arena generation)
    file,             \* the content of the file Page.render writes, NoFile
                      \* before the first render
    builder,          \* the sub-builder (Axis, Markings) the caller holds
    hplots,           \* handles returned by Page.plot / Plot.lines.. with what
                      \* the caller did through each (history)
    nplots,           \* number of Page.plot calls so far (history)
    nseries,          \* number of series created so far (history)
    lastCall,         \* the last call of the caller: "new", "build" (a
    panic,            \* the message of the panic that ended the program, ""
                      \* while it runs
    profile           \* build profile: "debug" (overflow checks) or "release",
                      \* "any" until the program's behaviour depends on it

vars == <<title, bounds, count, plots, renders, file, builder, hplots,
          nplots, nseries, lastCall, panic, profile>>

-----------------------------------------------------------------------------
(* Bounds of the model *)

\* calls of Page.plot
MaxPlots == 2
\* calls of Plot.lines / points / bars, over the whole page
MaxSeries == 2
\* calls of Page.render
MaxRenders == 2
\* slots of one axis array
MaxSlots == 3
\* markings of one plot
MaxMarks == 2

\* usize::MAX, the value 0 - 1 wraps to in a release build.  It stands for
\* 2^64 - 1: it only has to exceed every array length.
UsizeMax == 2147483647

-----------------------------------------------------------------------------
(* json::JsonValue *)

JNull == [t |-> "null", v |-> 0]
JBool(b) == [t |-> "bool", v |-> b]
JNum(n) == [t |-> "num", v |-> n]
JStr(s) == [t |-> "str", v |-> s]
JArr(s) == [t |-> "arr", v |-> s]
JObj(s) == [t |-> "obj", v |-> s]

IsNull(j) == j.t = "null"

\* position of key k among the members of object members m, 0 when absent
KeyPos(m, k) ==
    IF \E i \in 1..Len(m) : m[i][1] = k
    THEN CHOOSE i \in 1..Len(m) : m[i][1] = k
    ELSE 0

\* j[k] read (Index<&str>): the member, Null when j is no object or has no k
JGet(j, k) ==
    IF j.t = "obj" /\ KeyPos(j.v, k) > 0 THEN j.v[KeyPos(j.v, k)][2] ELSE JNull

\* j[k] = val (IndexMut<&str>): a non-object is first replaced by an empty
\* object; the member is replaced in place or appended
JSet(j, k, val) ==
    LET m == IF j.t = "obj" THEN j.v ELSE <<>>
        p == KeyPos(m, k)
    IN  IF p > 0 THEN JObj([m EXCEPT ![p] = <<k, val>>])
                 ELSE JObj(Append(m, <<k, val>>))

\* the elements after "&mut j[i]" (IndexMut<usize>, i 0-based): an index out
\* of bounds pushes one Null; a non-array first becomes [Null]
JVivify(j, i) ==
    LET a == IF j.t = "arr" THEN j.v ELSE <<JNull>>
    IN  IF i < Len(a) THEN a ELSE Append(a, JNull)

\* the position (1-based) "&mut j[i]" refers to
JSlot(j, i) == IF i < Len(JVivify(j, i)) THEN i + 1 ELSE Len(JVivify(j, i))

\* the element "&mut j[i]" refers to
JAt(j, i) == JVivify(j, i)[JSlot(j, i)]

\* j[i] = val
JSetAt(j, i, val) == JArr([JVivify(j, i) EXCEPT ![JSlot(j, i)] = val])

\* j.push(val): Ok on an array only
JCanPush(j) == j.t = "arr"
JPush(j, val) == JArr(Append(j.v, val))

\* j.len()
JLen(j) == IF j.t \in {"arr", "obj"} THEN Len(j.v) ELSE 0

\* Display of a JsonValue (the compact dump)
RECURSIVE Dump(_), DumpElems(_, _), DumpMembers(_, _)
Dump(j) ==
    CASE j.t = "null" -> "null"
      [] j.t = "bool" -> (IF j.v THEN "true" ELSE "false")
      [] j.t = "num"  -> ToString(j.v)
      [] j.t = "str"  -> "\"" \o j.v \o "\""
      [] j.t = "arr"  -> "[" \o DumpElems(j.v, 1) \o "]"
      [] j.t = "obj"  -> "{" \o DumpMembers(j.v, 1) \o "}"
DumpElems(s, i) ==
    IF i > Len(s) THEN ""
    ELSE Dump(s[i]) \o (IF i < Len(s) THEN "," ELSE "") \o DumpElems(s, i + 1)
DumpMembers(m, i) ==
    IF i > Len(m) THEN ""
    ELSE "\"" \o m[i][1] \o "\":" \o Dump(m[i][2])
         \o (IF i < Len(m) THEN "," ELSE "") \o DumpMembers(m, i + 1)

-----------------------------------------------------------------------------
(* typed_arena::Arena as the code uses it *)

\* a store that puts the new element first and shifts the others
AllocFront(arena, x) == <<x>> \o arena

\* Arena::alloc: the element goes behind the ones allocated before it, which
\* stay where they are
Alloc(arena, x) == Append(arena, x)

\* the slot the reference returned by Arena::alloc points at
AllocSlot(arena) == Len(arena) + 1

\* the elements, newest first
IntoVecReversed(arena) == [i \in 1..Len(arena) |-> arena[Len(arena) + 1 - i]]

\* Arena::into_vec: the elements in allocation order
IntoVec(arena) == arena

-----------------------------------------------------------------------------
(* Inputs *)

PageTitles == {"Report"}
PlotTitles == {"A"}
Sizes == {<<500, 200>>}
AxisValues == {5}
MarkPositions == {2}
RadiusValues == {3}
SymbolNames == {"circle"}
BarWidths == {1}
Colors == {"red"}
\* the points handed to a series constructor
PointData == <<<<1, 4>>>>
\* the FLOT environment variable: unset, or a local directory
FlotEnv == {"", "/opt/flot"}

-----------------------------------------------------------------------------
(* PlotKind, Series *)

\* PlotKind::to_str
KindStr(kind) ==
    CASE kind = "Lines" -> "lines"
      [] kind = "Points" -> "points"
      [] kind = "Bars" -> "bars"

\* the array of [x, y] pairs Series::new builds
RECURSIVE PointsArr(_, _)
PointsArr(data, i) ==
    IF i > Len(data) THEN <<>>
    ELSE <<JArr(<<JNum(data[i][1]), JNum(data[i][2])>>)>> \o PointsArr(data, i + 1)

\* Series::new
SeriesNew(kind, label, data) ==
    [data |-> JSet(JObj(<<<<"label", IF label = "" THEN JNull ELSE JStr(label)>>,
                          <<"data", JArr(PointsArr(data, 1))>>>>),
                   KindStr(kind), JObj(<<<<"show", JBool(TRUE)>>>>)),
     kind |-> kind,
     symbols |-> FALSE]

\* Series::color
SeriesSetColor(s, color) == [s EXCEPT !.data = JSet(s.data, "color", JStr(color))]

-----------------------------------------------------------------------------
(* Plot *)

\* Plot::new
PlotNew(name, ptitle, pbounds) ==
    [series |-> <<>>,
     placeholder |-> name,
     options |-> JObj(<<>>),
     time |-> FALSE,
     symbols |-> FALSE,
     bounds |-> pbounds,
     title |-> ptitle,
     option_functions |-> <<>>,
     description |-> <<>>]

\* Plot::render_placeholder: the optional heading, the container, the paragraphs
RenderPlaceholder(p) ==
    [h2 |-> IF p.title # "" THEN <<p.bounds[1], p.title>> ELSE <<>>,
     id |-> p.placeholder,
     width |-> p.bounds[1],
     height |-> p.bounds[2],
     paras |-> p.description]

\* the variable name of the k-th series
VarName(k) == "plot" \o "_" \o ToString(k)

\* String::pop: the text without its last character
StrPop(s) == IF Len(s) = 0 THEN s ELSE SubSeq(s, 1, Len(s) - 1)

\* the loop of render_script over the first n series: the text of the list so far
RECURSIVE SeriesList(_)
SeriesList(n) ==
    IF n = 0 THEN "[" ELSE SeriesList(n - 1) \o VarName(n) \o ","

\* Plot::render_script: one declaration per series, the options, the
\* option functions, the apply statement
RenderScript(p) ==
    LET series == IntoVec(p.series)
    IN  [decls |-> [k \in 1..Len(series) |->
                       [name |-> VarName(k), value |-> Dump(series[k].data)]],
         options |-> Dump(p.options),
         functions |-> [i \in 1..Len(p.option_functions) |->
                           "plot_options." \o p.option_functions[i]],
         target |-> p.placeholder,
         list |-> StrPop(SeriesList(Len(series))) \o "]",
         optvar |-> "plot_options"]

-----------------------------------------------------------------------------
(* Page *)

\* script(base, name)
Script(base, name) ==
    "<script language=\"javascript\" type=\"text/javascript\" src=\""
        \o base \o "/" \o name \o "\"></script>"

JqueryBase(flot) ==
    IF flot # "" THEN "file://" \o flot
    ELSE "https://cdnjs.cloudflare.com/ajax/libs/jquery/3.2.1"

FlotBase(flot) ==
    IF flot # "" THEN "file://" \o flot
    ELSE "https://cdnjs.cloudflare.com/ajax/libs/flot/0.8.3"

\* the document Page::render writes for the drained plots
Document(vec, flot) ==
    [title |-> IF title # "" THEN title ELSE "Flot",
     head |-> <<Script(JqueryBase(flot), "jquery.min.js"),
                Script(FlotBase(flot), "jquery.flot.min.js")>>
              \o (IF \E i \in 1..Len(vec) : vec[i].time
                  THEN <<Script(FlotBase(flot), "jquery.flot.time.min.js")>>
                  ELSE <<>>)
              \o (IF \E i \in 1..Len(vec) : vec[i].symbols
                  THEN <<Script(FlotBase(flot), "jquery.flot.symbol.min.js")>>
                  ELSE <<>>),
     h1 |-> title,
     placeholders |-> [i \in 1..Len(vec) |-> RenderPlaceholder(vec[i])],
     scripts |-> [i \in 1..Len(vec) |-> RenderScript(vec[i])]]

\* no sub-builder; an Axis has which and idx, and via: the method that made it
NoBuilder == [kind |-> "none", plot |-> 0, which |-> "", idx |-> 0, via |-> ""]

NoFile == [title |-> "", head |-> <<>>, h1 |-> "", placeholders |-> <<>>,
           scripts |-> <<>>]

Running == panic = ""

\* the record of a builder call (anything but render)
Built == [op |-> "build", flot |-> ""]

\* a builder call that returns normally
Returns == lastCall' = Built /\ panic' = ""

\* a builder call that panics with message msg: the program ends there
Panics(msg) == lastCall' = Built /\ panic' = msg

Init ==
    /\ title \in PageTitles
    /\ bounds = <<800, 300>>
    /\ count = 0
    /\ plots = <<>>
    /\ renders = 0
    /\ file = NoFile
    /\ builder = NoBuilder
    /\ hplots = <<>>
    /\ nplots = 0
    /\ nseries = 0
    /\ lastCall = [op |-> "new", flot |-> ""]
    /\ panic = ""
    /\ profile = "any"

\* a name that leaves the counter out
PlotNameFixed(n) == "plot"

\* the placeholder name Page::plot formats from the counter
PlotName(n) == "plot" \o ToString(n)

\* the handles of the arena Page.plots holds now
Live(h) == h.gen = renders

\* Page::plot
PagePlot(ptitle) ==
    /\ Running
    /\ nplots < MaxPlots
    /\ nplots' = nplots + 1
    /\ count' = count + 1
    /\ LET name == PlotName(count')
       IN  /\ plots' = Alloc(plots, PlotNew(name, ptitle, bounds))
           /\ hplots' = Append(SelectSeq(hplots, Live),
                               [gen |-> renders, slot |-> AllocSlot(plots),
                                call |-> nplots', name |-> name,
                                bounds |-> bounds, sized |-> FALSE,
                                late |-> FALSE, series |-> <<>>])
    /\ builder' = NoBuilder
    /\ Returns
    /\ UNCHANGED <<title, bounds, renders, file, nseries, profile>>

\* Page::size
PageSize(size) ==
    /\ Running
    /\ bounds # size
    /\ bounds' = size
    /\ builder' = NoBuilder
    /\ Returns
    /\ UNCHANGED <<title, count, plots, renders, file, hplots, nplots, nseries,
                   profile>>

\* Page::render, on a file system that takes the file: the arena is swapped
\* for an empty one and drained into the document
PageRender(flot) ==
    /\ Running
    /\ renders < MaxRenders
    /\ renders' = renders + 1
    /\ plots' = <<>>
    /\ file' = Document(IntoVec(plots), flot)
    /\ lastCall' = [op |-> "render", flot |-> flot]
    /\ builder' = NoBuilder
    /\ UNCHANGED <<title, bounds, count, hplots, nplots, nseries, panic, profile>>

\* the handles the caller may still use: those into the arena Page.plots holds
LivePlots == {k \in 1..Len(hplots) : Live(hplots[k])}

LiveSeries(k) == 1..Len(hplots[k].series)

\* a sibling was allocated after the element handle k was returned for
PlotHasLaterSibling(k) == \E k2 \in LivePlots : k2 > k

SeriesHasLaterSibling(k, j) == j < Len(hplots[k].series)

\* Plot::size, through the k-th handle Page.plot returned
PlotSize(k, size) ==
    /\ Running
    /\ k \in LivePlots
    /\ plots[hplots[k].slot].bounds # size
    /\ plots' = [plots EXCEPT ![hplots[k].slot].bounds = size]
    /\ hplots' = [hplots EXCEPT ![k].bounds = size,
                                ![k].sized = TRUE,
                                ![k].late = @ \/ PlotHasLaterSibling(k)]
    /\ builder' = NoBuilder
    /\ Returns
    /\ UNCHANGED <<title, bounds, count, renders, file, nplots, nseries, profile>>

\* the label the caller gives the n-th series of a plot
Labels(n) == {"s" \o ToString(n)}

\* the number of series created through plot handle k
Created(k) == IF k \in LivePlots THEN Len(hplots[k].series) ELSE 0

\* Plot::points / Plot::lines / Plot::bars, through the k-th plot handle
PlotSeries(k, kind, label) ==
    /\ Running
    /\ k \in LivePlots
    /\ nseries < MaxSeries
    /\ nseries' = nseries + 1
    /\ LET slot == hplots[k].slot
       IN  /\ plots' = [plots EXCEPT ![slot].series =
                           Alloc(@, SeriesNew(kind, label, PointData))]
           /\ hplots' = [hplots EXCEPT ![k].series =
                           Append(@, [slot |-> AllocSlot(plots[slot].series),
                                      label |-> label, kind |-> kind,
                                      color |-> "", late |-> FALSE])]
    /\ builder' = NoBuilder
    /\ Returns
    /\ UNCHANGED <<title, bounds, count, renders, file, nplots, profile>>

PlotLines(k, label) == PlotSeries(k, "Lines", label)
PlotPoints(k, label) == PlotSeries(k, "Points", label)
PlotBars(k, label) == PlotSeries(k, "Bars", label)

\* the series the j-th series handle of plot handle k points at
SeriesAt(k, j) == plots[hplots[k].slot].series[hplots[k].series[j].slot]

\* the page with series handle j of plot handle k pointing at s
WithSeries(k, j, s) ==
    [plots EXCEPT ![hplots[k].slot].series[hplots[k].series[j].slot] = s]

\* Series::color, through the j-th series handle of the k-th plot handle
SeriesColor(k, j, color) ==
    /\ Running
    /\ k \in LivePlots
    /\ j \in LiveSeries(k)
    /\ JGet(SeriesAt(k, j).data, "color") # JStr(color)
    /\ plots' = WithSeries(k, j, SeriesSetColor(SeriesAt(k, j), color))
    /\ hplots' = [hplots EXCEPT ![k].series[j].color = color,
                                ![k].series[j].late = @ \/ SeriesHasLaterSibling(k, j)]
    /\ builder' = NoBuilder
    /\ Returns
    /\ UNCHANGED <<title, bounds, count, renders, file, nplots, nseries, profile>>

\* pages built and rendered, under either FLOT setting
PageNext ==
    \/ \E t \in PlotTitles : PagePlot(t)
    \/ \E k \in 1..MaxPlots : \E l \in Labels(Created(k) + 1) : PlotLines(k, l)
    \/ \E f \in FlotEnv : PageRender(f)

PageSpec == Init /\ [][PageNext]_vars

\* programs that keep to the documented protocol: plots and series are created
\* and changed through their handles, and Page.render is the last call (FLOT
\* unset)
HandleNext ==
    /\ renders = 0
    /\ \/ \E t \in PlotTitles : PagePlot(t)
       \/ \E k \in 1..MaxPlots, s \in Sizes : PlotSize(k, s)
       \/ \E k \in 1..MaxPlots : \E l \in Labels(Created(k) + 1) : PlotLines(k, l)
       \/ \E k \in 1..MaxPlots : \E l \in Labels(Created(k) + 1) : PlotPoints(k, l)
       \/ \E k \in 1..MaxPlots : \E l \in Labels(Created(k) + 1) : PlotBars(k, l)
       \/ \E k \in 1..MaxPlots, j \in 1..MaxSeries, c \in Colors : SeriesColor(k, j, c)
       \/ PageRender("")

HandleSpec == Init /\ [][HandleNext]_vars

-----------------------------------------------------------------------------
(* Axis *)

\* the option tree of plot handle k
Options(k) == plots[hplots[k].slot].options

\* the page with the option tree of plot handle k replaced by o
WithOptions(k, o) == [plots EXCEPT ![hplots[k].slot].options = o]

\* an Axis::new that creates no first slot for an absent array
AxisNewNoFirst(opts, which, idx) ==
    LET o1 == IF IsNull(JGet(opts, which)) THEN JSet(opts, which, JArr(<<>>)) ELSE opts
    IN  IF idx > 1 THEN JSet(o1, which, JPush(JGet(o1, which), JObj(<<>>))) ELSE o1

\* Axis::new: the option tree it leaves.  An absent array becomes [{}]; for
\* idx > 1 one more {} is pushed
AxisNewOptions(opts, which, idx) ==
    LET o1 == IF IsNull(JGet(opts, which))
              THEN JSet(opts, which, JArr(<<JObj(<<>>)>>))
              ELSE opts
    IN  IF idx > 1 THEN JSet(o1, which, JPush(JGet(o1, which), JObj(<<>>))) ELSE o1

\* Axis::new: the 0-based index the Axis keeps
AxisIndex(idx) == idx - 1

\* Axis::set_option: options[which][idx][key] = val
AxisSetOption(opts, which, idx, key, val) ==
    LET arr == JGet(opts, which)
    IN  JSet(opts, which, JSetAt(arr, idx, JSet(JAt(arr, idx), key, val)))

\* Axis::new(which, plot, idx) on plot handle k, called by method via
AxisNew(k, which, idx, via) ==
    /\ Running
    /\ k \in LivePlots
    /\ JLen(JGet(AxisNewOptions(Options(k), which, idx), which)) <= MaxSlots
    /\ plots' = WithOptions(k, AxisNewOptions(Options(k), which, idx))
    /\ builder' = [kind |-> "axis", plot |-> k, which |-> which,
                   idx |-> AxisIndex(idx), via |-> via]
    /\ Returns
    /\ UNCHANGED <<title, bounds, count, renders, file, hplots, nplots, nseries,
                   profile>>

\* Plot::xaxis, Plot::yaxis, Plot::yaxis2
PlotXAxis(k) == AxisNew(k, "xaxes", 1, "xaxis")
PlotYAxis(k) == AxisNew(k, "yaxes", 1, "yaxis")
PlotYAxis2(k) == AxisNew(k, "yaxes", 2, "yaxis2")

\* Axis::min, through the Axis the caller holds
AxisMin(min) ==
    /\ Running
    /\ builder.kind = "axis"
    /\ plots' = WithOptions(builder.plot,
                    AxisSetOption(Options(builder.plot), builder.which,
                                  builder.idx, "min", JNum(min)))
    /\ Returns
    /\ UNCHANGED <<title, bounds, count, renders, file, builder, hplots, nplots,
                   nseries, profile>>

\* programs that configure the y axes of their plots
AxisNext ==
    \/ \E t \in PlotTitles : PagePlot(t)
    \/ \E k \in 1..MaxPlots : PlotYAxis(k)
    \/ \E k \in 1..MaxPlots : PlotYAxis2(k)
    \/ \E v \in AxisValues : AxisMin(v)

AxisSpec == Init /\ [][AxisNext]_vars

-----------------------------------------------------------------------------
(* Kind-specific series options *)

\* self.kind_ref()[key] = val
KindSet(s, key, val) ==
    [s EXCEPT !.data = JSet(s.data, KindStr(s.kind),
                            JSet(JGet(s.data, KindStr(s.kind)), key, val))]

\* the outcome of a call on a series: the panic message ("" when it returns)
\* and the series it leaves
Outcome(msg, s) == [panic |-> msg, s |-> s]

\* a radius that does not look at the kind
RadiusUnchecked(s, size) == Outcome("", KindSet(s, "radius", JNum(size)))

\* Series::radius
Radius(s, size) ==
    IF s.kind = "Points"
    THEN Outcome("", KindSet(s, "radius", JNum(size)))
    ELSE Outcome("radius() only applies to points", s)

\* Series::symbol
Symbol(s, name) ==
    IF s.kind = "Points"
    THEN Outcome("", KindSet([s EXCEPT !.symbols = TRUE], "symbol", JStr(name)))
    ELSE Outcome("symbol() only applies to points", s)

\* Series::steps
Steps(s) ==
    IF s.kind = "Lines"
    THEN Outcome("", KindSet(s, "steps", JBool(TRUE)))
    ELSE Outcome("steps() only applies to lines", s)

\* Series::width
Width(s, width) ==
    IF s.kind = "Bars"
    THEN Outcome("", KindSet(s, "barWidth", JNum(width)))
    ELSE Outcome("bar_width() only applies to bars", s)

\* a call on the j-th series handle of the k-th plot handle with outcome out
SeriesCall(k, j, out) ==
    /\ Running
    /\ k \in LivePlots
    /\ j \in LiveSeries(k)
    /\ IF out.panic = ""
       THEN plots' = WithSeries(k, j, out.s) /\ Returns
       ELSE plots' = plots /\ Panics(out.panic)
    /\ builder' = NoBuilder
    /\ UNCHANGED <<title, bounds, count, renders, file, hplots, nplots, nseries,
                   profile>>

SeriesRadius(k, j, size) == SeriesCall(k, j, Radius(SeriesAt(k, j), size))
SeriesSymbol(k, j, name) == SeriesCall(k, j, Symbol(SeriesAt(k, j), name))
SeriesSteps(k, j) == SeriesCall(k, j, Steps(SeriesAt(k, j)))
SeriesWidth(k, j, width) == SeriesCall(k, j, Width(SeriesAt(k, j), width))

\* programs that style their series
SeriesNext ==
    \/ \E t \in PlotTitles : PagePlot(t)
    \/ \E k \in 1..MaxPlots : \E l \in Labels(Created(k) + 1) : PlotLines(k, l)
    \/ \E k \in 1..MaxPlots : \E l \in Labels(Created(k) + 1) : PlotPoints(k, l)
    \/ \E k \in 1..MaxPlots : \E l \in Labels(Created(k) + 1) : PlotBars(k, l)
    \/ \E k \in 1..MaxPlots, j \in 1..MaxSeries, n \in RadiusValues : SeriesRadius(k, j, n)
    \/ \E k \in 1..MaxPlots, j \in 1..MaxSeries, n \in SymbolNames : SeriesSymbol(k, j, n)
    \/ \E k \in 1..MaxPlots, j \in 1..MaxSeries : SeriesSteps(k, j)
    \/ \E k \in 1..MaxPlots, j \in 1..MaxSeries, w \in BarWidths : SeriesWidth(k, j, w)

SeriesSpec == Init /\ [][SeriesNext]_vars

-----------------------------------------------------------------------------
(* Markings *)

\* Plot::set_option: options[key][subkey] = val, options[key] made an object
\* when absent
PlotSetOption(opts, key, subkey, val) ==
    LET o1 == IF IsNull(JGet(opts, key)) THEN JSet(opts, key, JObj(<<>>)) ELSE opts
    IN  JSet(o1, key, JSet(JGet(o1, key), subkey, val))

\* Markings::markings: options["grid"]["markings"]
MarkingsOf(opts) == JGet(JGet(opts, "grid"), "markings")

\* the option tree with options["grid"]["markings"] replaced by arr
WithMarkings(opts, arr) == JSet(opts, "grid", JSet(JGet(opts, "grid"), "markings", arr))

\* Plot::markings (Markings::new), through the k-th plot handle
PlotMarkings(k) ==
    /\ Running
    /\ k \in LivePlots
    /\ plots' = WithOptions(k, PlotSetOption(Options(k), "grid", "markings", JArr(<<>>)))
    /\ builder' = [NoBuilder EXCEPT !.kind = "markings", !.plot = k]
    /\ Returns
    /\ UNCHANGED <<title, bounds, count, renders, file, hplots, nplots, nseries,
                   profile>>

\* the marking vertical_area / horizontal_area builds on axis ax
Area(ax, p1, p2) == JObj(<<<<ax, JObj(<<<<"from", JNum(p1)>>, <<"to", JNum(p2)>>>>)>>>>)

\* Markings::add_marking, through the Markings the caller holds
AddMarking(val) ==
    /\ Running
    /\ builder.kind = "markings"
    /\ LET arr == MarkingsOf(Options(builder.plot))
       IN  /\ JLen(arr) < MaxMarks
           /\ IF JCanPush(arr)
              THEN /\ plots' = WithOptions(builder.plot,
                                  WithMarkings(Options(builder.plot), JPush(arr, val)))
                   /\ Returns
              ELSE /\ plots' = plots
                   /\ Panics("called Result::unwrap() on an Err value")
    /\ UNCHANGED <<title, bounds, count, renders, file, builder, hplots, nplots,
                   nseries, profile>>

\* Markings::vertical_line, Markings::horizontal_line
MarkVerticalLine(pos) == AddMarking(Area("xaxis", pos, pos))
MarkHorizontalLine(pos) == AddMarking(Area("yaxis", pos, pos))

\* an index that is always the first element
ColorIndexFirst(len) == 0

\* Markings::color: len - 1 in usize arithmetic without overflow checks
ColorIndex(len) == IF len >= 1 THEN len - 1 ELSE UsizeMax

\* Markings::color: arr[len - 1]["color"] = color
MarkingsColor(arr, color) ==
    JSetAt(arr, ColorIndex(JLen(arr)),
           JSet(JAt(arr, ColorIndex(JLen(arr))), "color", JStr(color)))

\* Markings::color, through the Markings the caller holds.  On an empty array
\* len - 1 overflows: a panic with overflow checks (debug), a wrap without
\* (release)
MarkColor(color) ==
    /\ Running
    /\ builder.kind = "markings"
    /\ LET arr == MarkingsOf(Options(builder.plot))
           set == WithOptions(builder.plot,
                      WithMarkings(Options(builder.plot), MarkingsColor(arr, color)))
       IN  \/ /\ JLen(arr) >= 1
              /\ plots' = set
              /\ Returns
              /\ profile' = profile
           \/ /\ JLen(arr) = 0
              /\ profile \in {"any", "debug"}
              /\ profile' = "debug"
              /\ plots' = plots
              /\ Panics("attempt to subtract with overflow")
           \/ /\ JLen(arr) = 0
              /\ profile \in {"any", "release"}
              /\ profile' = "release"
              /\ plots' = set
              /\ Returns
    /\ UNCHANGED <<title, bounds, count, renders, file, builder, hplots, nplots,
                   nseries>>

\* programs that annotate their plots
MarkNext ==
    \/ \E t \in PlotTitles : PagePlot(t)
    \/ \E k \in 1..MaxPlots : PlotMarkings(k)
    \/ \E p \in MarkPositions : MarkVerticalLine(p)
    \/ \E c \in Colors : MarkColor(c)

MarkSpec == Init /\ [][MarkNext]_vars

-----------------------------------------------------------------------------
(* Companion scripts: symbols *)

\* Plot::extra_symbols, through the k-th plot handle
PlotExtraSymbols(k) ==
    /\ Running
    /\ k \in LivePlots
    /\ ~plots[hplots[k].slot].symbols
    /\ plots' = [plots EXCEPT ![hplots[k].slot].symbols = TRUE]
    /\ builder' = NoBuilder
    /\ Returns
    /\ UNCHANGED <<title, bounds, count, renders, file, hplots, nplots, nseries,
                   profile>>

\* programs that draw points with symbols, then render (FLOT unset)
SymbolNext ==
    \/ \E t \in PlotTitles : PagePlot(t)
    \/ \E k \in 1..MaxPlots : \E l \in Labels(Created(k) + 1) : PlotPoints(k, l)
    \/ \E k \in 1..MaxPlots, j \in 1..MaxSeries, n \in SymbolNames : SeriesSymbol(k, j, n)
    \/ \E k \in 1..MaxPlots : PlotExtraSymbols(k)
    \/ PageRender("")

SymbolSpec == Init /\ [][SymbolNext]_vars

-----------------------------------------------------------------------------
(* Companion scripts: time *)

\* an Axis::time that sets the mode option and leaves the flag alone
AxisTimeNoFlag(p, which, idx) ==
    [p EXCEPT !.options = AxisSetOption(p.options, which, idx, "mode", JStr("time"))]

\* Axis::time: the plot it leaves
AxisTimePlot(p, which, idx) ==
    [p EXCEPT !.time = TRUE,
              !.options = AxisSetOption(p.options, which, idx, "mode", JStr("time"))]

\* Axis::time, through the Axis the caller holds
AxisTime ==
    /\ Running
    /\ builder.kind = "axis"
    /\ plots' = [plots EXCEPT ![hplots[builder.plot].slot] =
                     AxisTimePlot(@, builder.which, builder.idx)]
    /\ Returns
    /\ UNCHANGED <<title, bounds, count, renders, file, builder, hplots, nplots,
                   nseries, profile>>

\* programs that put axes in time mode, then render (FLOT unset)
TimeNext ==
    \/ \E t \in PlotTitles : PagePlot(t)
    \/ \E k \in 1..MaxPlots : PlotXAxis(k)
    \/ \E k \in 1..MaxPlots : PlotYAxis(k)
    \/ AxisTime
    \/ PageRender("")

TimeSpec == Init /\ [][TimeNext]_vars

-----------------------------------------------------------------------------
(* Sizes *)

\* programs that size their page and their plots, then render (FLOT unset)
SizeNext ==
    \/ \E t \in PlotTitles : PagePlot(t)
    \/ \E z \in Sizes : PageSize(z)
    \/ \E k \in 1..MaxPlots, z \in Sizes : PlotSize(k, z)
    \/ PageRender("")

SizeSpec == Init /\ [][SizeNext]_vars

-----------------------------------------------------------------------------
(* Legend *)

\* the corners of enum Corner
Corners == {"None", "TopRight", "TopLeft", "BottomRight", "BottomLeft"}

\* Corner::to_str
CornerStr(corner) ==
    CASE corner = "None" -> "none"
      [] corner = "TopRight" -> "ne"
      [] corner = "TopLeft" -> "nw"
      [] corner = "BottomRight" -> "sw"
      [] corner = "BottomLeft" -> "se"

\* Legend::new: options["legend"] made an object when absent
LegendNew(opts) ==
    IF IsNull(JGet(opts, "legend")) THEN JSet(opts, "legend", JObj(<<>>)) ELSE opts

\* Legend::set_option: options["legend"][key] = val
LegendSetOption(opts, key, val) ==
    JSet(opts, "legend", JSet(JGet(opts, "legend"), key, val))

\* Legend::pos
LegendPos(opts, corner) ==
    IF corner = "None"
    THEN LegendSetOption(opts, "show", JBool(FALSE))
    ELSE LegendSetOption(opts, "position", JStr(CornerStr(corner)))

\* Plot::legend_pos, through the k-th plot handle: self.legend().pos(pos)
PlotLegendPos(k, corner) ==
    /\ Running
    /\ k \in LivePlots
    /\ plots' = WithOptions(k, LegendPos(LegendNew(Options(k)), corner))
    /\ builder' = NoBuilder
    /\ Returns
    /\ UNCHANGED <<title, bounds, count, renders, file, hplots, nplots, nseries,
                   profile>>

\* programs that place the legends of their plots
LegendNext ==
    \/ \E t \in PlotTitles : PagePlot(t)
    \/ \E k \in 1..MaxPlots, c \in Corners : PlotLegendPos(k, c)

LegendSpec == Init /\ [][LegendNext]_vars

Next ==
    \/ PageNext
    \/ HandleNext
    \/ AxisNext
    \/ SeriesNext
    \/ MarkNext
    \/ \E p \in MarkPositions : MarkHorizontalLine(p)
    \/ \E k \in 1..MaxPlots : PlotXAxis(k)
    \/ \E s \in Sizes : PageSize(s)
    \/ SymbolNext
    \/ TimeNext
    \/ SizeNext
    \/ LegendNext

Spec == Init /\ [][Next]_vars

-----------------------------------------------------------------------------
(* Properties *)

\* the handles into the arena the last render drained
Drained(h) == h.gen = renders - 1

RenderedHandles == SelectSeq(hplots, Drained)

\* the configuration the calls made through series handle sh build
ExpectedSeries(sh) ==
    IF sh.color = ""
    THEN SeriesNew(sh.kind, sh.label, PointData).data
    ELSE SeriesSetColor(SeriesNew(sh.kind, sh.label, PointData), sh.color).data

\* C1: once Page.render has been called, a call of Page.plot is rejected: it
\* ends in a panic and creates no plot.
C1_PlotAfterRenderRejected ==
    [][(renders > 0 /\ nplots' = nplots + 1) => (panic' # "" /\ plots' = plots)]_vars

\* C2: a render that directly follows a render, under the same FLOT setting,
\* writes the same document as the first.
C2_RenderTwiceSameOutput ==
    [][(/\ lastCall.op = "render"
        /\ renders' = renders + 1
        /\ lastCall'.flot = lastCall.flot) => file' = file]_vars

\* C3: every handle keeps pointing at the plot or series it was returned for,
\* whose state is what the calls through that handle made it, and the document
\* written by render shows that state in the handle's plot and series.
C3_HandlesStable ==
    /\ \A k \in LivePlots :
          LET h == hplots[k]
              p == plots[h.slot]
          IN  /\ p.placeholder = h.name
              /\ p.bounds = h.bounds
              /\ Len(p.series) = Len(h.series)
              /\ \A j \in 1..Len(h.series) :
                    p.series[h.series[j].slot].data = ExpectedSeries(h.series[j])
    /\ lastCall.op = "render" =>
          \A k \in 1..Len(hplots) : Drained(hplots[k]) =>
              LET h == hplots[k]
              IN  /\ h.slot <= Len(file.placeholders)
                  /\ file.placeholders[h.slot].id = h.name
                  /\ file.placeholders[h.slot].width = h.bounds[1]
                  /\ file.placeholders[h.slot].height = h.bounds[2]
                  /\ file.scripts[h.slot].target = h.name
                  /\ Len(file.scripts[h.slot].decls) = Len(h.series)
                  /\ \A j \in 1..Len(h.series) :
                        file.scripts[h.slot].decls[h.series[j].slot].value
                            = Dump(ExpectedSeries(h.series[j]))

\* a page is rendered after a plot and a series were each changed through their
\* handles when a later sibling already existed
C3_Witness ==
    /\ lastCall.op = "render"
    /\ \E k \in 1..Len(hplots) :
          /\ hplots[k].late
          /\ \E j \in 1..Len(hplots[k].series) : hplots[k].series[j].late

\* the names of the first n series variables, comma separated
RECURSIVE NamesInOrder(_)
NamesInOrder(n) ==
    IF n = 0 THEN ""
    ELSE IF n = 1 THEN "plot_1"
    ELSE NamesInOrder(n - 1) \o "," \o "plot_" \o ToString(n)

\* C4: the document holds the placeholder blocks and the script blocks in the
\* order the plots were created; in each script block the j-th declaration is
\* that of the j-th series created, and the apply statement lists the variables
\* in that order.  (The list of a plot without series is the matter of C15.)
C4_EmissionOrder ==
    lastCall.op = "render" =>
        LET hs == RenderedHandles
        IN  /\ Len(file.placeholders) = Len(hs)
            /\ Len(file.scripts) = Len(hs)
            /\ \A i \in 1..Len(hs) :
                  LET n == Len(hs[i].series)
                      sc == file.scripts[i]
                  IN  /\ file.placeholders[i].id = "plot" \o ToString(hs[i].call)
                      /\ sc.target = "plot" \o ToString(hs[i].call)
                      /\ Len(sc.decls) = n
                      /\ \A j \in 1..n :
                            /\ sc.decls[j].name = "plot_" \o ToString(j)
                            /\ sc.decls[j].value =
                                   Dump(ExpectedSeries(
                                       [hs[i].series[j] EXCEPT !.label = "s" \o ToString(j)]))
                      /\ n >= 1 => sc.list = "[" \o NamesInOrder(n) \o "]"

\* a rendered page of two plots, one of them with two series
C4_Witness ==
    /\ lastCall.op = "render"
    /\ Len(file.placeholders) >= 2
    /\ \E i \in 1..Len(file.scripts) : Len(file.scripts[i].decls) >= 2

\* C5: the plot created by the k-th call of Page.plot has the placeholder
\* "plot" followed by k, and the placeholders of the plots of a page, in the
\* arena and in the document, are pairwise distinct.
C5_PlaceholderIds ==
    /\ \A k \in LivePlots :
          plots[hplots[k].slot].placeholder = "plot" \o ToString(hplots[k].call)
    /\ \A i, j \in 1..Len(plots) :
          i # j => plots[i].placeholder # plots[j].placeholder
    /\ \A i, j \in 1..Len(file.placeholders) :
          i # j => file.placeholders[i].id # file.placeholders[j].id

\* two plots of one page, the second created by the second call
C5_Witness ==
    /\ Len(plots) >= 2
    /\ plots[2].placeholder = "plot2"

\* the y-axis array of plot handle k in the arena ps
YAxes(ps, k) == JGet(ps[hplots[k].slot].options, "yaxes")

\* C6: the first Plot.yaxis2 call on a plot (the array is absent, or holds the
\* one slot yaxis() made) leaves an array of exactly two slots: slot 0 is {}
\* when the array was absent and is the slot yaxis() configured otherwise,
\* slot 1 is new, and the Axis returned keeps index 1.  An option set through
\* a yaxis2() Axis lands in slot 1 and nowhere else.
C6_FirstYaxis2 ==
    [][/\ \A k \in 1..MaxPlots :
            (PlotYAxis2(k) /\ JLen(YAxes(plots, k)) <= 1) =>
                LET y == YAxes(plots, k)
                    y2 == YAxes(plots', k)
                IN  /\ y2.t = "arr"
                    /\ Len(y2.v) = 2
                    /\ y2.v[1] = (IF IsNull(y) THEN JObj(<<>>) ELSE y.v[1])
                    /\ y2.v[2] = JObj(<<>>)
                    /\ builder'.idx = 1
       /\ \A v \in AxisValues :
            (AxisMin(v) /\ builder.via = "yaxis2") =>
                LET y == YAxes(plots, builder.plot)
                    y2 == YAxes(plots', builder.plot)
                IN  /\ y2.t = "arr"
                    /\ Len(y2.v) = JLen(y)
                    /\ Len(y2.v) >= 2
                    /\ JGet(y2.v[2], "min") = JNum(v)
                    /\ \A i \in 1..Len(y2.v) : i # 2 => y2.v[i] = y.v[i]]_vars

\* yaxis2() was called on a plot that never had yaxis() called, and an option
\* was set through the Axis it returned: slot 0 is empty, slot 1 holds the option
C6_Witness ==
    /\ builder.via = "yaxis2"
    /\ \E v \in AxisValues :
          YAxes(plots, builder.plot) =
              JArr(<<JObj(<<>>), JObj(<<<<"min", JNum(v)>>>>)>>)

\* C7: once yaxis2() has been called on a plot (its array has two slots or
\* more), the array has exactly two slots; a yaxis2() Axis has index 1 and a
\* yaxis() Axis index 0; a later yaxis2() call leaves slot 1 as it was.
C7_SecondAxisStable ==
    [][/\ \A k \in 1..MaxPlots : k \in LivePlots =>
            (JLen(YAxes(plots', k)) >= 2 => JLen(YAxes(plots', k)) = 2)
       /\ builder'.via = "yaxis2" => builder'.idx = 1
       /\ builder'.via = "yaxis" => builder'.idx = 0
       /\ \A k \in 1..MaxPlots :
            (PlotYAxis2(k) /\ JLen(YAxes(plots, k)) >= 2) =>
                YAxes(plots', k).v[2] = YAxes(plots, k).v[2]]_vars

\* the series the j-th series handle of plot handle k points at in the arena ps
SeriesIn(ps, k, j) == ps[hplots[k].slot].series[hplots[k].series[j].slot]

\* what a kind-specific call on series handle j of plot handle k must do: on a
\* series of kind `kind` return, with val under key in the series' kind
\* object and not at the top level; on any other series panic and leave the
\* page as it was
KindCallOutcome(k, j, kind, key, val) ==
    LET s == SeriesIn(plots, k, j)
        s2 == SeriesIn(plots', k, j)
    IN  IF s.kind = kind
        THEN /\ panic' = ""
             /\ JGet(JGet(s2.data, KindStr(kind)), key) = val
             /\ IsNull(JGet(s2.data, key))
             /\ s2.kind = s.kind
             /\ \A other \in {"lines", "points", "bars"} \ {KindStr(kind)} :
                   IsNull(JGet(s2.data, other))
        ELSE /\ panic' # ""
             /\ plots' = plots

\* C8: radius and symbol return only on Points series, steps only on Lines,
\* width only on Bars, and then write the option under the series' kind key;
\* on a series of another kind the call panics and the configuration and
\* flags of every series stay as they were.
C8_KindSpecificOps ==
    [][\A k \in 1..MaxPlots, j \in 1..MaxSeries :
          /\ \A n \in RadiusValues :
                SeriesRadius(k, j, n) => KindCallOutcome(k, j, "Points", "radius", JNum(n))
          /\ \A n \in SymbolNames :
                SeriesSymbol(k, j, n) => KindCallOutcome(k, j, "Points", "symbol", JStr(n))
          /\ SeriesSteps(k, j) => KindCallOutcome(k, j, "Lines", "steps", JBool(TRUE))
          /\ \A w \in BarWidths :
                SeriesWidth(k, j, w) => KindCallOutcome(k, j, "Bars", "barWidth", JNum(w))]_vars

\* radius() returned on a Points series, which holds the radius under "points",
\* and then panicked on a series of another kind
C8_Witness ==
    /\ panic = "radius() only applies to points"
    /\ \E k \in LivePlots : \E j \in LiveSeries(k) :
          /\ SeriesAt(k, j).kind = "Points"
          /\ ~IsNull(JGet(JGet(SeriesAt(k, j).data, "points"), "radius"))
    /\ \E k \in LivePlots : \E j \in LiveSeries(k) :
          /\ SeriesAt(k, j).kind # "Points"
          /\ IsNull(JGet(JGet(SeriesAt(k, j).data, KindStr(SeriesAt(k, j).kind)), "radius"))

\* the markings array of plot handle k in the arena ps
Marks(ps, k) == MarkingsOf(ps[hplots[k].slot].options)

\* C9: on a markings array of n >= 1 markings, Markings.color sets the color
\* of the marking at position n, keeps its other fields, and leaves the other
\* markings and the length of the array as they were.
C9_ColorLastMarking ==
    [][\A c \in Colors :
          (MarkColor(c) /\ JLen(Marks(plots, builder.plot)) >= 1) =>
              LET m == Marks(plots, builder.plot).v
                  m2 == Marks(plots', builder.plot)
                  n == Len(m)
              IN  /\ panic' = ""
                  /\ m2.t = "arr"
                  /\ Len(m2.v) = n
                  /\ JGet(m2.v[n], "color") = JStr(c)
                  /\ \A key \in {"xaxis", "yaxis"} :
                        JGet(m2.v[n], key) = JGet(m[n], key)
                  /\ \A i \in 1..(n - 1) : m2.v[i] = m[i]]_vars

\* two markings, of which only the second, the last added, has a color
C9_Witness ==
    /\ builder.kind = "markings"
    /\ LET m == Marks(plots, builder.plot)
       IN  /\ JLen(m) = 2
           /\ IsNull(JGet(m.v[1], "color"))
           /\ ~IsNull(JGet(m.v[2], "color"))

\* C10: Markings.color on an empty markings array panics and leaves the array
\* (and the page) as it was.
C10_ColorOnEmptyFails ==
    [][\A c \in Colors :
          (MarkColor(c) /\ JLen(Marks(plots, builder.plot)) = 0) =>
              (panic' # "" /\ plots' = plots)]_vars

\* the number of positions of the sequence s that hold x
Occurrences(s, x) == Cardinality({i \in 1..Len(s) : s[i] = x})

\* Series.symbol returned on a series of plot p
SymbolCalled(p) == \E j \in 1..Len(p.series) : p.series[j].symbols

\* C11: when Series.symbol was called on a series of a plot of the page, the
\* head Page.render writes holds the symbol companion script exactly once,
\* with or without a call of Plot.extra_symbols.
C11_SymbolScriptEmitted ==
    [][\A f \in FlotEnv :
          (PageRender(f) /\ \E i \in 1..Len(plots) : SymbolCalled(plots[i])) =>
              Occurrences(file'.head,
                          Script(FlotBase(f), "jquery.flot.symbol.min.js")) = 1]_vars

\* an axis of plot p is in time mode
TimeCalled(p) ==
    \E which \in {"xaxes", "yaxes"} :
        \E i \in 1..JLen(JGet(p.options, which)) :
            JGet(JGet(p.options, which).v[i], "mode") = JStr("time")

\* the options text of a plot whose x axis alone was made, and put in time mode
TimeOptionsText ==
    Dump(JObj(<<<<"xaxes", JArr(<<JObj(<<<<"mode", JStr("time")>>>>)>>)>>>>))

\* C12: the head Page.render writes holds the time companion script once when
\* Axis.time was called on an axis of a plot of the page, however many plots
\* and axes are in time mode, and not at all otherwise.
C12_TimeScriptOnce ==
    [][\A f \in FlotEnv :
          PageRender(f) =>
              Occurrences(file'.head,
                          Script(FlotBase(f), "jquery.flot.time.min.js")) =
                  (IF \E i \in 1..Len(plots) : TimeCalled(plots[i]) THEN 1 ELSE 0)]_vars

\* a page of two plots, both with the x axis in time mode, was rendered with
\* one time include
C12_Witness ==
    /\ lastCall.op = "render"
    /\ Len(file.scripts) = 2
    /\ \A i \in 1..2 : file.scripts[i].options = TimeOptionsText
    /\ Occurrences(file.head,
                   Script(FlotBase(lastCall.flot), "jquery.flot.time.min.js")) = 1

\* C13: every plot of the page that Plot.size was never called on is rendered
\* with the width and height of the last Page.size call (the page's size),
\* whether Page.plot created it before that call or after it.
C13_PageSizeAppliesToAll ==
    [][\A f \in FlotEnv :
          PageRender(f) =>
              \A k \in LivePlots :
                  ~hplots[k].sized =>
                      /\ file'.placeholders[hplots[k].slot].width = bounds[1]
                      /\ file'.placeholders[hplots[k].slot].height = bounds[2]]_vars

\* C14: a marking appended through one Plot.markings() handle is still in the
\* plot's markings array, at the same position, after Plot.markings() is
\* called again (and so after the markings appended through the new handle).
C14_MarkingsAccumulate ==
    [][\A k \in 1..MaxPlots :
          PlotMarkings(k) =>
              \A i \in 1..JLen(Marks(plots, k)) :
                  /\ i <= JLen(Marks(plots', k))
                  /\ Marks(plots', k).v[i] = Marks(plots, k).v[i]]_vars

\* the first n variable names, separated by commas
RECURSIVE NamesJoined(_)
NamesJoined(n) ==
    IF n = 0 THEN ""
    ELSE IF n = 1 THEN VarName(1)
    ELSE NamesJoined(n - 1) \o "," \o VarName(n)

\* C15: the series list in the apply statement of a plot with n series, n >= 0,
\* is an opening bracket, the n variable names separated by commas, and a
\* closing bracket: "[]" for a plot without series.
C15_SeriesListWellFormed ==
    \A i \in 1..Len(file.scripts) :
        file.scripts[i].list =
            "[" \o NamesJoined(Len(file.scripts[i].decls)) \o "]"

\* the legend options of plot handle k in the arena ps
LegendOf(ps, k) == JGet(ps[hplots[k].slot].options, "legend")

\* the compass code of a corner
Compass(corner) ==
    CASE corner = "TopRight" -> "ne"
      [] corner = "TopLeft" -> "nw"
      [] corner = "BottomRight" -> "se"
      [] corner = "BottomLeft" -> "sw"

\* C16: Plot.legend_pos with a corner other than None writes the compass code
\* of that corner (TopRight ne, TopLeft nw, BottomRight se, BottomLeft sw)
\* into the legend's position option; with None it writes show = false and
\* leaves position as it was.
C16_LegendCorner ==
    [][\A k \in 1..MaxPlots, c \in Corners :
          PlotLegendPos(k, c) =>
              IF c = "None"
              THEN /\ JGet(LegendOf(plots', k), "show") = JBool(FALSE)
                   /\ JGet(LegendOf(plots', k), "position") =
                          JGet(LegendOf(plots, k), "position")
              ELSE JGet(LegendOf(plots', k), "position") = JStr(Compass(c))]_vars

=============================================================================
